---- MODULE Spec2Model ----
(***************************************************************************)
(* Model of the LAMMPS job execution and monitoring engine:                *)
(*   - the job store and its requests (app/api/endpoints/simulations.py),  *)
(*   - the Celery monitor task run_lammps_simulation                       *)
(*     (app/tasks/simulation_tasks.py),                                    *)
(*   - the process supervisor / status inference of LAMMPSService          *)
(*     (app/services/lammps_service.py),                                   *)
(*   - the LAMMPS executable and the OS process table as environment.      *)
(* One job identifier is modelled: workspaces and job records are          *)
(* partitioned per identifier.  The monitor is a process whose steps are   *)
(* the stretches of run_lammps_simulation between its calls into the       *)
(* service; requests, the worker and the executable interleave with them.  *)
(* The specifications share the definitions.  Spec is the job store, the   *)
(* monitor and the executable for jobs without auxiliary files; there the  *)
(* reads of a status query and the write of process.json after a spawn     *)
(* succeed.  SpecDelete adds the delete request and its cleanup task for a *)
(* job the store accepts; for the same job SpecRetry is the monitor with   *)
(* launches in which the write of process.json can raise, SpecLive the     *)
(* monitor under a worker that keeps executing (weak fairness of its       *)
(* steps), and SpecStore the job store with the response of every request, *)
(* rejected ones included.  The others are methods of the service and one  *)
(* endpoint called directly:                                               *)
(*   SpecStatus    status queries whose reads can fail, on logs written in *)
(*                 any order;                                              *)
(*   SpecCleanup   cleanups and status queries, with pids that go to       *)
(*                 processes of other programs;                            *)
(*   SpecLaunch    launches with auxiliary files, in which the write of    *)
(*                 process.json can raise;                                 *)
(*   SpecValidate  runs of the script validator;                           *)
(*   SpecLogs      the get-logs endpoint;                                  *)
(*   SpecPaths     the workspace path of any job id.                       *)
(* Not modelled: the time limits of the worker configuration               *)
(* (app/celery.py).                                                        *)
(***************************************************************************)
EXTENDS Integers, Sequences, FiniteSets, TLC

(***************************************************************************)
(* Bounds of the model and constants of the program.                       *)
(***************************************************************************)
\* Size of the OS process-id space (process ids are 1..MaxPid).
MaxPid == 2

\* simulation_tasks.py:13  @celery_app.task(bind=True, max_retries=3, ...)
max_retries == 3
\* simulation_tasks.py:170 self.retry(countdown=60, exc=e)
retry_countdown == 60
\* simulation_tasks.py:95 / :96
max_wait_time == 3600
check_interval == 10
\* simulation_tasks.py:35 / lammps_service.py:157
MinMpi == 1
MaxMpi == 16

Pids == 1..MaxPid

\* Kinds of simulation_id a caller can pass: a well-formed id, the empty
\* string, a non-empty string that fails ^[a-zA-Z0-9\-_]+$ (e.g. "../x").
IdKinds == {"valid", "empty", "bad_grammar"}
\* Kinds of input_script: usable text, the empty string, more than 1 MB.
ScriptKinds == {"ok", "empty", "too_large"}
\* Worker counts: below, at both ends of and above the accepted range.
MpiValues == {0, 1, 16, 17}

\* Names of auxiliary (potential) files a caller can pass, as strings of
\* characters: two plain names, ".", "..", "../a" and the empty name.
PotentialNames ==
    { <<"a">>, <<"b">>, <<".">>, <<".", ".">>, <<".", ".", "/", "a">>, <<>> }
\* Longest list of auxiliary file names of one launch.
MaxFiles == 2
FileLists == UNION { [1..n -> PotentialNames] : n \in 0..MaxFiles }
\* The regular files the potentials root holds.
PotentialsDir == { <<"a">> }

\* Markers the executable writes to its log.
ErrorMarker == "ERROR"
CompletionMarkers == {"Total wall time:", "Loop time of"}
Markers == {ErrorMarker} \cup CompletionMarkers
\* Words a log can hold: the markers, the error marker in lower case (text a
\* script prints, messages of the executable), and output that is no marker.
LogWords == Markers \cup {"error", "Step"}

VARIABLES
    args,            \* arguments of the job: [simulation_id, input_script,
                     \* mpi_processes, potential_files]
    simulations_db,  \* the job record: [status, task_id]; status "absent" = no record
    pc,              \* position of the monitor task
    retries,         \* self.request.retries
    revoked,         \* a revoke(terminate=True) was issued for the task id
    elapsed_time,    \* local variable of the poll loop
    current,         \* meta['current'] of the last update_state (-1: none yet)
    status,          \* status of the last poll of this attempt ("none": no poll yet)
    error,           \* message of the exception raised in this attempt
    result,          \* value returned by the task ("none" until it returns)
    countdown,       \* countdown of the last scheduled retry (0: none)
    workspace,       \* the workspace directory exists
    process_json,    \* pid stored in process.json (0: no usable descriptor)
    log,             \* logs/lammps.log: [exists, content], content the words it
                     \* holds, in the order they were written
    proc,            \* process table: pid -> "free" | "spawned" | "logging" | "orphan"
                     \* | "foreign" (free: no process; orphan: its workspace
                     \* was removed; foreign: a process of another program)
    terminal_polled, \* history: some poll of this job returned failed or completed
    ever_spawned,    \* history: an executable was spawned for this job
    cleanup_calls,   \* history: calls of cleanup_simulation made by the monitor
    only_marker_failures, \* history: every attempt that failed so far failed on
                     \* a poll that found the error marker in the log
    call,            \* the last direct call of a service method and what it
                     \* returned (op "none": none yet)
    in_flight,       \* monitor tasks dispatched for the job and neither
                     \* returned nor discarded nor terminated
    cleanup_task     \* cleanup_simulation_task of a delete: "none" | "queued"
                     \* | "done"

apiVars  == <<args, simulations_db>>
taskVars == <<pc, retries, elapsed_time, current, status, error, result, countdown>>
osVars   == <<workspace, process_json, log, proc>>
dispatchVars == <<in_flight, cleanup_task>>
histVars == <<terminal_polled, ever_spawned, cleanup_calls, only_marker_failures>>
vars == <<args, simulations_db, pc, retries, revoked, elapsed_time, current, status,
          error, result, countdown, workspace, process_json, log, proc,
          terminal_polled, ever_spawned, cleanup_calls, only_marker_failures, call,
          in_flight, cleanup_task>>

\* No log file, and a log file as the executable opens it.
NoLog == [exists |-> FALSE, content |-> <<>>]
EmptyLog == [exists |-> TRUE, content |-> <<>>]

NoResult == [success |-> FALSE, error |-> "none", returned |-> FALSE]

\* The last direct call: its method op, what it returned ret, the auxiliary
\* files it staged, again: the call before it was a call of the same method,
\* io: what its reads met, signals: the signals it sent, in order, probe:
\* what its liveness probe after the grace window found.
\* run: the run of the executable a validation started, valid and detail:
\* the "valid" and "error" of the dict it returned.
NoRun == [started |-> FALSE, exit_code |-> 0, duration |-> 0]
\* id, entry: the job id a path was asked for, as characters, and what
\* data_dir / id was on disk.
NoCall == [op |-> "none", ret |-> "none", staged |-> {}, again |-> FALSE,
           io |-> "none", signals |-> <<>>, probe |-> "none",
           run |-> NoRun, valid |-> FALSE, detail |-> "none",
           id |-> <<>>, entry |-> "none"]
\* The record of a call of method op that returned ret.
Returned(op, ret) == [NoCall EXCEPT !.op = op, !.ret = ret, !.again = call.op = op]

\* The state before any request, for a job whose arguments are among jobs.
InitFor(jobs) ==
    /\ args \in jobs
    /\ simulations_db = [status |-> "absent", task_id |-> FALSE]
    /\ pc = "idle"
    /\ retries = 0
    /\ revoked = FALSE
    /\ elapsed_time = 0
    /\ current = -1
    /\ status = "none"
    /\ error = "none"
    /\ result = NoResult
    /\ countdown = 0
    /\ workspace = FALSE
    /\ process_json = 0
    /\ log = NoLog
    /\ proc = [p \in Pids |-> "free"]
    /\ terminal_polled = FALSE
    /\ ever_spawned = FALSE
    /\ cleanup_calls = 0
    /\ only_marker_failures = TRUE
    /\ call = NoCall
    /\ in_flight = 0
    /\ cleanup_task = "none"

\* Jobs of every kind of id, script and worker count, without auxiliary files.
Init ==
    InitFor([simulation_id : IdKinds, input_script : ScriptKinds,
             mpi_processes : MpiValues, potential_files : {<<>>}])


(***************************************************************************)
(* LAMMPSService: pure parts.                                              *)
(***************************************************************************)
\* re.match(r'^[a-zA-Z0-9\-_]+$', simulation_id): the empty string and a
\* string with any other character do not match.
_validate_simulation_id(simulation_id) == simulation_id = "valid"

\* Variant of process_running that takes the descriptor for the process.
process_running_by_descriptor(pj, pr) == pj # 0

\* os.kill(pid, 0) on the pid of process.json: the probe succeeds for any
\* process the table holds under that pid.
process_running(pj, pr) == pj # 0 /\ pr[pj] # "free"

\* str.upper() on the words of a log.
Upper(w) ==
    CASE w \in {"ERROR", "error"} -> "ERROR"
      [] w = "Loop time of"       -> "LOOP TIME OF"
      [] w = "Step"               -> "STEP"
      [] OTHER                    -> "TOTAL WALL TIME:"

\* Variant of HasError that compares the log as written.
HasError_case_sensitive(lg) ==
    \E i \in DOMAIN lg.content : lg.content[i] = ErrorMarker

\* "ERROR" in log_content.upper()
HasError(lg) == \E i \in DOMAIN lg.content : Upper(lg.content[i]) = ErrorMarker
\* Variant of HasCompletion that knows one completion marker.
HasCompletion_wall_time_only(lg) ==
    \E i \in DOMAIN lg.content : lg.content[i] = "Total wall time:"

\* "Total wall time:" in log_content or "Loop time of" in log_content
HasCompletion(lg) == \E i \in DOMAIN lg.content : lg.content[i] \in CompletionMarkers

\* What the reads of one status query meet: both files read; open() of
\* process.json raises OSError; process.json is not JSON (json.load raises
\* JSONDecodeError); it is JSON but not an object (.get raises
\* AttributeError); it is an object without pid, or with a pid that is
\* false; its pid is not an integer (os.kill raises TypeError); open() or
\* read() of the log raises; the log is larger than the 50 MB that
\* get_simulation_logs reads at most (f.read() of lines 287-288 reads it
\* like any other log).
ReadOutcomes ==
    {"ok", "descriptor_oserror", "descriptor_invalid_json", "descriptor_not_object",
     "descriptor_no_pid", "descriptor_bad_pid", "log_oserror", "log_too_large"}
\* The reads of the descriptor that end in an exception the handler of line
\* 277 does not catch.
DescriptorRaises == {"descriptor_oserror", "descriptor_not_object", "descriptor_bad_pid"}
\* The reads of the descriptor that leave process_running False without a probe.
DescriptorUnusable == {"descriptor_invalid_json", "descriptor_no_pid"}

\* Variant of get_simulation_status that reports a log without markers as
\* running whether or not the process is alive.
get_simulation_status_no_liveness(ws, pj, lg, pr, io) ==
    IF ~ws THEN "not_found"
    ELSE IF pj # 0 /\ io \in DescriptorRaises THEN "error"
    ELSE LET running == io \notin DescriptorUnusable /\ process_running(pj, pr) IN
         IF lg.exists
         THEN IF io = "log_oserror" THEN "unknown"
              ELSE IF HasError(lg) THEN "failed"
              ELSE IF HasCompletion(lg) THEN "completed"
              ELSE "running"
         ELSE IF running THEN "starting" ELSE "pending"

\* Variant of get_simulation_status that reports a process which vanished
\* without a marker as cancelled.
get_simulation_status_cancelled(ws, pj, lg, pr, io) ==
    IF ~ws THEN "not_found"
    ELSE IF lg.exists
         THEN IF HasError(lg) THEN "failed"
              ELSE IF HasCompletion(lg) THEN "completed"
              ELSE IF ~process_running(pj, pr) THEN "cancelled"
              ELSE "running"
         ELSE IF process_running(pj, pr) THEN "starting" ELSE "pending"

\* get_simulation_status for a valid simulation_id, as a function of the
\* on-disk state, the process table and the outcome io of its reads.  An
\* exception of the descriptor read other than JSONDecodeError / KeyError
\* reaches the outer handler ("error"); JSONDecodeError and a missing pid
\* leave process_running False; an exception of the log read gives
\* "unknown".
get_simulation_status(ws, pj, lg, pr, io) ==
    IF ~ws THEN "not_found"
    ELSE IF pj # 0 /\ io \in DescriptorRaises THEN "error"
    ELSE LET running == io \notin DescriptorUnusable /\ process_running(pj, pr) IN
         IF lg.exists
         THEN IF io = "log_oserror" THEN "unknown"
              ELSE IF HasError(lg) THEN "failed"
              ELSE IF HasCompletion(lg) THEN "completed"
              ELSE IF ~running THEN "failed"
              ELSE "running"
         ELSE IF running THEN "starting" ELSE "pending"

\* validate_input_script: classification of one run of the executable in
\* check mode. outcome is what the run did: exit code zero, exit code
\* non-zero, subprocess.TimeoutExpired, any other exception.
ValidatorOutcomes == {"exit_zero", "exit_nonzero", "timeout", "exception"}

\* Variant of validate_input_script that reports a run that timed out as a
\* script that failed validation.
validate_input_script_timeout_as_failure(outcome) ==
    CASE outcome = "exit_zero" ->
            [valid |-> TRUE, message |-> "Input script is valid", error |-> "none"]
      [] outcome \in {"exit_nonzero", "timeout"} ->
            [valid |-> FALSE, message |-> "Input script validation failed",
             error |-> "stderr"]
      [] OTHER ->
            [valid |-> FALSE, message |-> "Validation error", error |-> "exception"]

\* The dict returned: valid, message, and error ("none": no such key;
\* "stderr": the captured result.stderr; "exception": str(e)).
validate_input_script(outcome) ==
    CASE outcome = "exit_zero" ->
            [valid |-> TRUE, message |-> "Input script is valid", error |-> "none"]
      [] outcome = "exit_nonzero" ->
            [valid |-> FALSE, message |-> "Input script validation failed",
             error |-> "stderr"]
      [] outcome = "timeout" ->
            [valid |-> FALSE, message |-> "Validation timeout",
             error |-> "Script validation took too long"]
      [] OTHER ->
            [valid |-> FALSE, message |-> "Validation error", error |-> "exception"]

\* subprocess.run(cmd, capture_output=True, text=True, timeout=30): a run
\* that cannot be started raises, a run still going when the timeout has
\* passed is killed and TimeoutExpired raised, any other run gives its exit
\* code.
validation_timeout == 30
ExitCodes == {0, 1, 2}
Durations == {0, validation_timeout - 1, validation_timeout, validation_timeout + 1}
ValidatorRuns == [started : BOOLEAN, exit_code : ExitCodes, duration : Durations]
subprocess_run(run) ==
    IF ~run.started THEN "exception"
    ELSE IF run.duration > validation_timeout THEN "timeout"
    ELSE IF run.exit_code = 0 THEN "exit_zero"
    ELSE "exit_nonzero"

(***************************************************************************)
(* LAMMPSService: operations on the workspace and the process table.       *)
(***************************************************************************)
\* Lines 153-158 of run_simulation: the message of the ValueError raised
\* before the workspace is created, "ok" when none is.
LaunchError(a) ==
    IF ~_validate_simulation_id(a.simulation_id) THEN "Invalid simulation ID"
    ELSE IF a.mpi_processes < MinMpi \/ a.mpi_processes > MaxMpi
         THEN "MPI processes must be between 1 and 16"
    ELSE "ok"

\* What one call of run_simulation meets in its environment: all goes well,
\* staging raises, Popen raises.
LaunchOutcomes == {"ok", "staging_error", "spawn_error"}
\* The same with the write of process.json raising after the spawn.
AllLaunchOutcomes == LaunchOutcomes \cup {"descriptor_error"}

\* re.match(r'^[a-zA-Z0-9._\-]+$', potential_file): letters, digits, dot,
\* underscore, hyphen; at least one character.
SafeFileName(n) == Len(n) > 0 /\ \A i \in DOMAIN n : n[i] \in {"a", "b", "."}

\* _sanitize_path(potentials_path / n, potentials_path) for a name of one
\* component: resolve() makes ".." the parent of the root, which relative_to
\* refuses (ValueError); "." is the root itself, which it accepts.
InsideRoot(n) == n # <<".", ".">>

\* src.exists() and what shutil.copy2 meets: a regular file, a directory (the
\* root under the name "."), nothing.
SrcKind(n) ==
    IF n = <<".">> THEN "directory"
    ELSE IF n \in PotentialsDir THEN "file" ELSE "missing"

\* Lines 170-185: the loop over potential_files from position i on, staged
\* the names copied so far.  A name that fails the pattern is skipped with a
\* warning; _sanitize_path or copy2 raising leaves the loop for the handler of
\* line 235 (aborted).
RECURSIVE StageFrom(_, _, _)
StageFrom(files, i, staged) ==
    IF i > Len(files) THEN [aborted |-> FALSE, staged |-> staged]
    ELSE LET n == files[i] IN
         IF ~SafeFileName(n) THEN StageFrom(files, i + 1, staged)
         ELSE IF ~InsideRoot(n) THEN [aborted |-> TRUE, staged |-> staged]
         ELSE IF SrcKind(n) = "file" THEN StageFrom(files, i + 1, staged \cup {n})
         ELSE IF SrcKind(n) = "directory" THEN [aborted |-> TRUE, staged |-> staged]
         ELSE StageFrom(files, i + 1, staged)

\* What a launch with these auxiliary files meets when the environment
\* offers outcome: the staging loop raising comes first.
Met(files, outcome) ==
    IF StageFrom(files, 1, {}).aborted THEN "staging_error" ELSE outcome

\* Variant of run_simulation that writes process.json before the spawn.
run_simulation_descriptor_first(outcome, p, ret) ==
    /\ workspace' = TRUE
    /\ proc[p] = "free"
    /\ IF outcome = "staging_error"
       THEN UNCHANGED <<proc, process_json, ever_spawned>>
       ELSE /\ process_json' = p
            /\ IF outcome = "spawn_error"
               THEN UNCHANGED <<proc, ever_spawned>>
               ELSE proc' = [proc EXCEPT ![p] = "spawned"] /\ ever_spawned' = TRUE
    /\ ret = (outcome = "ok")
    /\ UNCHANGED log

\* run_simulation for a valid id and worker count: the workspace is created
\* (mkdir exist_ok), the script is staged, the executable is spawned in a new
\* session under a pid the OS hands out, process.json is written.  ret is the
\* "success" of the returned dict.  A stale log of an earlier attempt stays
\* until the new process opens its log.  When the write of process.json
\* raises, the process runs on and the file is as it was (open() raised) or
\* holds no usable descriptor (it was truncated).
run_simulation(outcome, p, ret) ==
    /\ workspace' = TRUE
    /\ CASE outcome = "ok" ->
              /\ proc[p] = "free"
              /\ proc' = [proc EXCEPT ![p] = "spawned"]
              /\ process_json' = p
              /\ ever_spawned' = TRUE
              /\ ret = TRUE
         [] outcome = "descriptor_error" ->
              /\ proc[p] = "free"
              /\ proc' = [proc EXCEPT ![p] = "spawned"]
              /\ process_json' \in {process_json, 0}
              /\ ever_spawned' = TRUE
              /\ ret = FALSE
         [] OTHER ->
              /\ UNCHANGED <<proc, process_json, ever_spawned>>
              /\ ret = FALSE
    /\ UNCHANGED log

\* What a process does with SIGTERM: it exits within the 2 s wait, it exits
\* between the probe and the os.getpgid of the SIGKILL line, or it is still
\* there when SIGKILL is sent.
TermResponses == {"exits_in_grace", "exits_after_probe", "survives"}

\* Variant of terminate that sends SIGKILL at once.
terminate_kill_first(pj, pr, response) ==
    IF pj = 0 \/ pr[pj] = "free"
    THEN [signals |-> <<>>, probe |-> "none"]
    ELSE [signals |-> <<"SIGKILL">>, probe |-> "none"]

\* The termination block of cleanup_simulation (lines 499-516) for the pid
\* pj of the descriptor: the signals it sends to the process group of pj, in
\* order, and what os.kill(pid, 0) after the wait finds.  Without a pid, or
\* with os.getpgid raising for a pid that names no process, it sends none.
terminate(pj, pr, response) ==
    IF pj = 0 \/ pr[pj] = "free"
    THEN [signals |-> <<>>, probe |-> "none"]
    ELSE CASE response = "exits_in_grace" ->
                [signals |-> <<"SIGTERM">>, probe |-> "gone"]
           [] response = "exits_after_probe" ->
                [signals |-> <<"SIGTERM">>, probe |-> "alive"]
           [] OTHER ->
                [signals |-> <<"SIGTERM", "SIGKILL">>, probe |-> "alive"]

\* cleanup_simulation for a valid id.  SIGTERM goes to the process group of
\* the described pid, after the 2 s wait the pid is probed and SIGKILL sent
\* if it is still there: either way the process at that pid is gone, be it
\* the job's or one of another program.  Then shutil.rmtree removes the
\* workspace, or raises (rmtree_ok = FALSE) and leaves it.  A process of the
\* job that outlives the removal keeps only unlinked files.
cleanup_simulation(rmtree_ok) ==
    IF ~workspace
    THEN UNCHANGED osVars
    ELSE LET killed == IF process_json # 0
                       THEN [proc EXCEPT ![process_json] = "free"]
                       ELSE proc
         IN IF rmtree_ok
            THEN /\ workspace' = FALSE
                 /\ process_json' = 0
                 /\ log' = NoLog
                 /\ proc' = [p \in Pids |->
                               IF killed[p] \in {"free", "foreign"}
                               THEN killed[p] ELSE "orphan"]
            ELSE /\ proc' = killed
                 /\ UNCHANGED <<workspace, process_json, log>>


\* Variant of cleanup_result without the early return for a missing workspace.
cleanup_result_no_early_return(rmtree_ok) ==
    IF rmtree_ok THEN "success" ELSE "failure"

\* The "success" of the dict cleanup_simulation returns: the early return of
\* lines 486-490, the return after rmtree, the handler of line 530.
cleanup_result(rmtree_ok) ==
    IF ~workspace \/ rmtree_ok THEN "success" ELSE "failure"

(***************************************************************************)
(* The job store requests (simulations.py).                                *)
(***************************************************************************)
\* validate_input_limits: script size and worker count.
validate_input_limits(a) ==
    /\ a.input_script # "too_large"
    /\ a.mpi_processes >= MinMpi /\ a.mpi_processes <= MaxMpi

\* POST /simulations: the record is stored under a fresh uuid4 with status
\* pending.  A request that fails validate_input_limits stores nothing.
create_simulation ==
    /\ simulations_db.status = "absent"
    /\ pc = "idle"
    /\ args.simulation_id = "valid"
    /\ validate_input_limits(args)
    /\ simulations_db' = [status |-> "pending", task_id |-> FALSE]
    /\ UNCHANGED <<args, revoked, dispatchVars, call, taskVars, osVars, histVars>>

\* Variant of start_simulation that is accepted whatever the status of the
\* record.
start_simulation_any_status ==
    /\ simulations_db.status \notin {"absent", "deleted"}
    /\ pc' = "queued"
    /\ simulations_db' = [status |-> "running", task_id |-> TRUE]
    /\ UNCHANGED <<args, revoked, cleanup_task, call, retries, elapsed_time, current, status, error,
                   result, countdown, osVars, histVars>>
    /\ in_flight' = in_flight + 1

\* POST /simulations/{id}/start: accepted from pending or failed; the monitor
\* task is dispatched and the record becomes running.
start_simulation ==
    /\ simulations_db.status \in {"pending", "failed"}
    /\ pc' = "queued"
    /\ simulations_db' = [status |-> "running", task_id |-> TRUE]
    /\ UNCHANGED <<args, revoked, cleanup_task, call, retries, elapsed_time, current, status, error,
                   result, countdown, osVars, histVars>>
    /\ in_flight' = in_flight + 1

\* POST /simulations/{id}/cancel: accepted from running or pending; the task
\* of the record, if any, is revoked with terminate=True; the record becomes
\* cancelled.  Nothing else is called.
cancel_simulation ==
    /\ simulations_db.status \in {"running", "pending"}
    /\ revoked' = (revoked \/ simulations_db.task_id)
    /\ simulations_db' = [simulations_db EXCEPT !.status = "cancelled"]
    /\ UNCHANGED <<args, call, dispatchVars, taskVars, osVars, histVars>>

\* Variant of update_simulation that is accepted from cancelled too and
\* reopens the record.
update_simulation_reopens ==
    /\ simulations_db.status \in {"pending", "failed", "cancelled"}
    /\ simulations_db' = [simulations_db EXCEPT !.status = "pending"]
    /\ UNCHANGED <<args, call, revoked, dispatchVars, taskVars, osVars, histVars>>

\* PUT /simulations/{id}: accepted from pending or failed; name, description
\* and tags are replaced (SimulationUpdate has no other field), none of which
\* the model holds.
update_simulation ==
    /\ simulations_db.status \in {"pending", "failed"}
    /\ UNCHANGED vars

\* DELETE /simulations/{id}: the task of a running record is revoked with
\* terminate=True, cleanup_simulation_task is dispatched and the record is
\* removed (status "deleted": the id, a uuid4, is not given out again).
delete_simulation ==
    /\ simulations_db.status \notin {"absent", "deleted"}
    /\ revoked' = (revoked \/ (simulations_db.status = "running"
                                /\ simulations_db.task_id))
    /\ cleanup_task' = "queued"
    /\ simulations_db' = [status |-> "deleted", task_id |-> FALSE]
    /\ UNCHANGED <<args, call, in_flight, taskVars, osVars, histVars>>

\* cleanup_simulation_task of a delete: cleanup_simulation for the id of a
\* record, which passes the grammar; its result is returned.
cleanup_simulation_task ==
    /\ cleanup_task = "queued"
    /\ \E rmtree_ok \in BOOLEAN : cleanup_simulation(rmtree_ok)
    /\ cleanup_task' = "done"
    /\ UNCHANGED <<apiVars, revoked, call, in_flight, taskVars, histVars>>

\* The requests on a job record with their responses, rejected ones
\* included: 404 for an id the store does not hold, 400 for a status the
\* request is not accepted from, else the request is carried out.
\* Variant of start_accepts that refuses a running record only.
start_accepts_not_running(st) == st # "running"

\* simulations.py 281: start is accepted from pending and failed.
start_accepts(st) == st \in {"pending", "failed"}

\* simulations.py 324: cancel is accepted from running and pending.
cancel_accepts(st) == st \in {"running", "pending"}

\* simulations.py 194: update is accepted from pending and failed.
update_accepts(st) == st \in {"pending", "failed"}

\* simulations.py 276-277, 319-320, 189-190: simulation_id not in simulations_db.
in_simulations_db == simulations_db.status \notin {"absent", "deleted"}

\* POST /simulations/{id}/start, lines 271-312.
start_simulation_request ==
    IF ~in_simulations_db
    THEN /\ call' = Returned("start_simulation", "404")
         /\ UNCHANGED <<apiVars, revoked, dispatchVars, taskVars, osVars, histVars>>
    ELSE IF ~start_accepts(simulations_db.status)
    THEN /\ call' = Returned("start_simulation", "400")
         /\ UNCHANGED <<apiVars, revoked, dispatchVars, taskVars, osVars, histVars>>
    ELSE /\ call' = Returned("start_simulation", "200")
         /\ pc' = "queued"
         /\ in_flight' = in_flight + 1
         /\ simulations_db' = [status |-> "running", task_id |-> TRUE]
         /\ UNCHANGED <<args, revoked, cleanup_task, retries, elapsed_time, current,
                        status, error, result, countdown, osVars, histVars>>

\* POST /simulations/{id}/cancel, lines 314-352.
cancel_simulation_request ==
    IF ~in_simulations_db
    THEN /\ call' = Returned("cancel_simulation", "404")
         /\ UNCHANGED <<apiVars, revoked, dispatchVars, taskVars, osVars, histVars>>
    ELSE IF ~cancel_accepts(simulations_db.status)
    THEN /\ call' = Returned("cancel_simulation", "400")
         /\ UNCHANGED <<apiVars, revoked, dispatchVars, taskVars, osVars, histVars>>
    ELSE /\ call' = Returned("cancel_simulation", "200")
         /\ revoked' = (revoked \/ simulations_db.task_id)
         /\ simulations_db' = [simulations_db EXCEPT !.status = "cancelled"]
         /\ UNCHANGED <<args, dispatchVars, taskVars, osVars, histVars>>

\* PUT /simulations/{id}, lines 180-229: fields_ok is whether name,
\* description and tags pass the length checks of lines 201-212.
update_simulation_request ==
    \E fields_ok \in BOOLEAN :
        /\ call' = Returned("update_simulation",
                            IF ~in_simulations_db THEN "404"
                            ELSE IF ~update_accepts(simulations_db.status) THEN "400"
                            ELSE IF ~fields_ok THEN "400"
                            ELSE "200")
        /\ UNCHANGED <<apiVars, revoked, dispatchVars, taskVars, osVars, histVars>>

\* run_lammps_simulation.delay(...) by a caller other than start_simulation:
\* the task is a public entry point of the worker and takes any arguments.
\* A job the store accepts is dispatched through the store; the monitor
\* neither reads nor writes the record, so it runs the same either way.
run_lammps_simulation_delay ==
    /\ simulations_db.status = "absent"
    /\ ~(args.simulation_id = "valid" /\ validate_input_limits(args))
    /\ pc = "idle"
    /\ pc' = "queued"
    /\ UNCHANGED <<apiVars, revoked, cleanup_task, call, retries, elapsed_time, current, status, error,
                   result, countdown, osVars, histVars>>
    /\ in_flight' = in_flight + 1

(***************************************************************************)
(* The worker: picking up, discarding and terminating the monitor task.    *)
(***************************************************************************)
Executing == {"validate_inputs", "validate_script", "launch", "poll",
              "after_loop", "except"}

\* The worker starts the task, first delivery or a retry whose countdown ran out.
task_begin ==
    /\ pc \in {"queued", "retry_wait"}
    /\ pc' = "validate_inputs"
    /\ error' = "none"
    /\ UNCHANGED <<apiVars, revoked, dispatchVars, call, retries, elapsed_time, current, status,
                   result, countdown, osVars, histVars>>

\* A revoked task that is waiting is discarded; a revoked task that is
\* executing has its pool process terminated: the function does not run on,
\* its except clause included, and its locals are gone.  The signal goes to
\* the pool process only.
task_revoked ==
    /\ revoked
    /\ pc \in {"queued", "retry_wait"} \cup Executing
    /\ pc' = "revoked"
    /\ elapsed_time' = 0
    /\ status' = "none"
    /\ UNCHANGED <<apiVars, revoked, cleanup_task, call, retries, current, error, result, countdown,
                   osVars, histVars>>
    /\ in_flight' = in_flight - 1


(***************************************************************************)
(* The monitor task run_lammps_simulation (simulation_tasks.py).           *)
(***************************************************************************)
\* Variant of InputError without the check of the worker count.
InputError_no_worker_bound(a) ==
    CASE a.simulation_id = "empty"       -> "Invalid simulation_id"
      [] a.input_script = "empty"        -> "Invalid input_script"
      [] a.input_script = "too_large"    -> "Input script too large"
      [] OTHER                           -> "ok"

\* Lines 26-36: the message of the ValueError raised, "ok" when none is.
InputError(a) ==
    CASE a.simulation_id = "empty"       -> "Invalid simulation_id"
      [] a.input_script = "empty"        -> "Invalid input_script"
      [] a.input_script = "too_large"    -> "Input script too large"
      [] a.mpi_processes < MinMpi \/ a.mpi_processes > MaxMpi
                                         -> "Invalid MPI processes count"
      [] OTHER                           -> "ok"

\* Variant of Progress that estimates from the time that remains.
Progress_remaining(e) ==
    LET v == 90 - ((e * 70) \div max_wait_time) IN IF v < 90 THEN v ELSE 90

\* Line 128: int(min(20 + (elapsed_time / max_wait_time) * 70, 90)).
Progress(e) ==
    LET v == 20 + ((e * 70) \div max_wait_time) IN IF v < 90 THEN v ELSE 90

\* Variant of TimedOut without the check after the loop.
TimedOut_unchecked(e) == FALSE

\* Variant of TimedOut that is one interval early.
TimedOut_early(e) == e >= max_wait_time - check_interval

\* Line 141: if elapsed_time >= max_wait_time.
TimedOut(e) == e >= max_wait_time

\* Variant of ShouldRetry that retries whatever the count.
ShouldRetry_always(r) == TRUE

\* Variant of ShouldRetry with <= for <.
ShouldRetry_inclusive(r) == r <= max_retries

\* Line 168: if self.request.retries < self.max_retries.
ShouldRetry(r) == r < max_retries

\* Variant of error_after_cleanup in which a cleanup that failed replaces the
\* error of the attempt.
error_after_cleanup_reported(e, cleaned) ==
    IF cleaned = "success" THEN e ELSE "Failed to cleanup"

\* Lines 160-165: the exception e of the attempt after the cleanup returned
\* success, returned failure or raised; a cleanup_error is logged.
error_after_cleanup(e, cleaned) == e

\* Lines 173-177: the value returned once the retries are used up.
FinalFailure(e) == [success |-> FALSE, error |-> e, returned |-> TRUE]

\* Lines 150-155.
Success == [success |-> TRUE, error |-> "none", returned |-> TRUE]

\* Lines 24-48: input validation, then update_state(current=0).
validate_inputs ==
    /\ pc = "validate_inputs"
    /\ LET msg == InputError(args) IN
       IF msg = "ok"
       THEN /\ current' = 0
            /\ pc' = "validate_script"
            /\ UNCHANGED error
       ELSE /\ error' = msg
            /\ pc' = "except"
            /\ UNCHANGED current
    /\ only_marker_failures' = (only_marker_failures /\ pc' # "except")
    /\ UNCHANGED <<apiVars, revoked, dispatchVars, call, retries, elapsed_time, status, result,
                   countdown, osVars, terminal_polled, ever_spawned, cleanup_calls>>

\* Lines 50-68: update_state(current=10), then the Script Validator.
validate_script ==
    /\ pc = "validate_script"
    /\ current' = 10
    /\ \E outcome \in ValidatorOutcomes :
         IF validate_input_script(outcome).valid
         THEN pc' = "launch" /\ UNCHANGED error
         ELSE pc' = "except" /\ error' = "Script validation failed"
    /\ only_marker_failures' = (only_marker_failures /\ pc' # "except")
    /\ UNCHANGED <<apiVars, revoked, dispatchVars, call, retries, elapsed_time, status, result,
                   countdown, osVars, terminal_polled, ever_spawned, cleanup_calls>>

\* Variant of launch that goes on to the poll loop whatever run_simulation
\* returned.
launch_unchecked ==
    /\ pc = "launch"
    /\ current' = 20
    /\ IF LaunchError(args) # "ok"
       THEN /\ error' = LaunchError(args)
            /\ pc' = "except"
            /\ UNCHANGED <<elapsed_time, osVars, ever_spawned>>
       ELSE \E outcome \in LaunchOutcomes, p \in Pids, ret \in BOOLEAN :
            /\ run_simulation(Met(args.potential_files, outcome), p, ret)
            /\ pc' = "poll" /\ elapsed_time' = 0 /\ UNCHANGED error
    /\ only_marker_failures' = (only_marker_failures /\ pc' # "except")
    /\ UNCHANGED <<apiVars, revoked, dispatchVars, call, retries, status, result, countdown,
                   terminal_polled, cleanup_calls>>

\* Lines 70-97: update_state(current=20), run_simulation, elapsed_time = 0.
\* run_simulation raises for an id that fails the grammar and for a worker
\* count out of range, before it touches the file system.
launch ==
    /\ pc = "launch"
    /\ current' = 20
    /\ IF LaunchError(args) # "ok"
       THEN /\ error' = LaunchError(args)
            /\ pc' = "except"
            /\ UNCHANGED <<elapsed_time, osVars, ever_spawned>>
       ELSE \E outcome \in LaunchOutcomes, p \in Pids, ret \in BOOLEAN :
            /\ run_simulation(Met(args.potential_files, outcome), p, ret)
            /\ IF ret
               THEN pc' = "poll" /\ elapsed_time' = 0 /\ UNCHANGED error
               ELSE pc' = "except" /\ error' = "Failed to start simulation"
                    /\ UNCHANGED elapsed_time
    /\ only_marker_failures' = (only_marker_failures /\ pc' # "except")
    /\ UNCHANGED <<apiVars, revoked, dispatchVars, call, retries, status, result, countdown,
                   terminal_polled, cleanup_calls>>

\* The same step with a write of process.json that can raise after the spawn:
\* run_simulation then returns failure and the monitor raises.
launch_faulty ==
    /\ pc = "launch"
    /\ current' = 20
    /\ IF LaunchError(args) # "ok"
       THEN /\ error' = LaunchError(args)
            /\ pc' = "except"
            /\ UNCHANGED <<elapsed_time, osVars, ever_spawned>>
       ELSE \E outcome \in AllLaunchOutcomes, p \in Pids, ret \in BOOLEAN :
            /\ run_simulation(Met(args.potential_files, outcome), p, ret)
            /\ IF ret
               THEN pc' = "poll" /\ elapsed_time' = 0 /\ UNCHANGED error
               ELSE pc' = "except" /\ error' = "Failed to start simulation"
                    /\ UNCHANGED elapsed_time
    /\ only_marker_failures' = (only_marker_failures /\ pc' # "except")
    /\ UNCHANGED <<apiVars, revoked, dispatchVars, call, retries, status, result, countdown,
                   terminal_polled, cleanup_calls>>

\* Variant of loop_exit in which a workspace that is gone raises as well.
loop_exit_not_found_raises(st, e) ==
    CASE st = "completed"              -> "after_loop"
      [] st \in {"failed", "not_found"} -> "except"
      [] OTHER                         -> IF e + check_interval < max_wait_time
                                          THEN "poll" ELSE "after_loop"

\* Variant of loop_exit in which a failed status does not raise.
loop_exit_no_raise(st, e) ==
    CASE st = "completed" -> "after_loop"
      [] OTHER            -> IF e + check_interval < max_wait_time
                             THEN "poll" ELSE "after_loop"

\* Lines 111-139 and the loop condition of line 99: where the loop goes
\* after a poll returned st at elapsed time e.  completed: break; failed:
\* raise; otherwise sleep, add check_interval and test the ceiling.
loop_exit(st, e) ==
    CASE st = "completed" -> "after_loop"
      [] st = "failed"    -> "except"
      [] OTHER            -> IF e + check_interval < max_wait_time
                             THEN "poll" ELSE "after_loop"

\* Lines 99-139: one pass of the loop: the status is inferred, on completed
\* 100 is published and the loop is left, on failed RuntimeError is raised,
\* otherwise the progress is published (running, starting only), the task
\* sleeps check_interval and adds it to elapsed_time.
poll ==
    /\ pc = "poll"
    /\ elapsed_time < max_wait_time
    /\ LET st == get_simulation_status(workspace, process_json, log, proc, "ok") IN
       /\ status' = st
       /\ terminal_polled' = (terminal_polled \/ st \in {"failed", "completed"})
       /\ pc' = loop_exit(st, elapsed_time)
       /\ current' = CASE st = "completed" -> 100
                       [] st \in {"running", "starting"} -> Progress(elapsed_time)
                       [] OTHER -> current
       /\ error' = IF st = "failed" THEN "Simulation failed" ELSE error
       /\ elapsed_time' = IF st \in {"completed", "failed"}
                          THEN elapsed_time
                          ELSE elapsed_time + check_interval
    /\ only_marker_failures' =
          (only_marker_failures /\ (pc' = "except" => HasError(log)))
    /\ UNCHANGED <<apiVars, revoked, dispatchVars, call, retries, result, countdown, osVars,
                   ever_spawned, cleanup_calls>>

\* Lines 141-155: the timeout check after the loop, else the results are
\* collected and the task returns success; its locals end with it.
after_loop ==
    /\ pc = "after_loop"
    /\ IF TimedOut(elapsed_time)
       THEN /\ error' = "Simulation timeout"
            /\ pc' = "except"
            /\ UNCHANGED <<result, elapsed_time, status>>
       ELSE /\ result' = Success
            /\ pc' = "done"
            /\ elapsed_time' = 0
            /\ status' = "none"
            /\ UNCHANGED error
    /\ only_marker_failures' = (only_marker_failures /\ pc' # "except")
    /\ UNCHANGED <<apiVars, revoked, cleanup_task, call, retries, current, countdown, osVars,
                   terminal_polled, ever_spawned, cleanup_calls>>
    /\ in_flight' = IF pc' = "done" THEN in_flight - 1 ELSE in_flight

\* Lines 157-177: cleanup (an exception of it is swallowed: cleanup_simulation
\* raises for an id that fails the grammar), then the retry or the final
\* failure.  The locals of the invocation end with it.
handle_failure ==
    /\ pc = "except"
    /\ \E rmtree_ok \in BOOLEAN :
         LET valid == _validate_simulation_id(args.simulation_id)
             cleaned == IF valid THEN cleanup_result(rmtree_ok) ELSE "raised"
             e == error_after_cleanup(error, cleaned) IN
         /\ IF valid THEN cleanup_simulation(rmtree_ok) ELSE UNCHANGED osVars
         /\ error' = e
         /\ IF ShouldRetry(retries)
            THEN /\ retries' = retries + 1
                 /\ countdown' = retry_countdown
                 /\ pc' = "retry_wait"
                 /\ UNCHANGED result
            ELSE /\ result' = FinalFailure(e)
                 /\ pc' = "done"
                 /\ UNCHANGED <<retries, countdown>>
    /\ cleanup_calls' = cleanup_calls + 1
    /\ elapsed_time' = 0
    /\ status' = "none"
    /\ UNCHANGED <<apiVars, revoked, cleanup_task, call, current, terminal_polled,
                   ever_spawned, only_marker_failures>>
    /\ in_flight' = IF pc' = "done" THEN in_flight - 1 ELSE in_flight

(***************************************************************************)
(* The environment: the spawned executable.                                *)
(***************************************************************************)
\* The executable opens (and truncates) logs/lammps.log.
lammps_open_log ==
    \E p \in Pids :
        /\ proc[p] = "spawned"
        /\ workspace
        /\ proc' = [proc EXCEPT ![p] = "logging"]
        /\ log' = EmptyLog
        /\ UNCHANGED <<apiVars, revoked, dispatchVars, call, taskVars, workspace, process_json, histVars>>

\* The executable writes a marker: "Loop time of" after a run command,
\* "Total wall time:" at its end, "ERROR" when it aborts.  Nothing follows
\* the last two.
lammps_write ==
    \E p \in Pids, m \in Markers :
        /\ proc[p] = "logging"
        /\ workspace
        /\ log.exists
        /\ \A i \in DOMAIN log.content :
              log.content[i] \notin {m, ErrorMarker, "Total wall time:"}
        /\ log' = [log EXCEPT !.content = Append(@, m)]
        /\ UNCHANGED <<apiVars, revoked, dispatchVars, call, taskVars, workspace, process_json, proc,
                       histVars>>

\* A process ends on its own.
lammps_exit ==
    \E p \in Pids :
        /\ proc[p] # "free"
        /\ proc' = [proc EXCEPT ![p] = "free"]
        /\ UNCHANGED <<apiVars, revoked, dispatchVars, call, taskVars, workspace, process_json, log,
                       histVars>>

Next ==
    \/ create_simulation
    \/ start_simulation
    \/ cancel_simulation
    \/ update_simulation
    \/ run_lammps_simulation_delay
    \/ task_begin
    \/ task_revoked
    \/ validate_inputs
    \/ validate_script
    \/ launch
    \/ poll
    \/ after_loop
    \/ handle_failure
    \/ lammps_open_log
    \/ lammps_write
    \/ lammps_exit

Spec == Init /\ [][Next]_vars

\* One job the store accepts, started once, with launches in which the write
\* of process.json can raise; no cancel and no delete.
NextRetry ==
    \/ create_simulation
    \/ start_simulation
    \/ task_begin
    \/ validate_inputs
    \/ validate_script
    \/ launch_faulty
    \/ poll
    \/ after_loop
    \/ handle_failure
    \/ lammps_open_log
    \/ lammps_write
    \/ lammps_exit

\* The same with deletes, for a job the store accepts.
InitDelete ==
    InitFor([simulation_id : {"valid"}, input_script : {"ok"},
             mpi_processes : {MinMpi}, potential_files : {<<>>}])

NextDelete ==
    \/ create_simulation
    \/ start_simulation
    \/ cancel_simulation
    \/ update_simulation
    \/ delete_simulation
    \/ cleanup_simulation_task
    \/ task_begin
    \/ task_revoked
    \/ validate_inputs
    \/ validate_script
    \/ launch
    \/ poll
    \/ after_loop
    \/ handle_failure
    \/ lammps_open_log
    \/ lammps_write
    \/ lammps_exit

SpecDelete == InitDelete /\ [][NextDelete]_vars

SpecRetry == InitDelete /\ [][NextRetry]_vars

\* The monitor of one job under a worker that keeps executing: the task it
\* has picked up runs on, time.sleep returns, the countdown of a retry runs
\* out and the task is delivered again.  Nothing is assumed of the
\* executable, of the requests or of the moment a revocation takes effect.
MonitorStep ==
    \/ task_begin
    \/ validate_inputs
    \/ validate_script
    \/ launch
    \/ poll
    \/ after_loop
    \/ handle_failure

NextLive ==
    \/ create_simulation
    \/ start_simulation
    \/ cancel_simulation
    \/ task_begin
    \/ task_revoked
    \/ validate_inputs
    \/ validate_script
    \/ launch
    \/ poll
    \/ after_loop
    \/ handle_failure
    \/ lammps_open_log
    \/ lammps_write
    \/ lammps_exit

SpecLive == InitDelete /\ [][NextLive]_vars /\ WF_vars(MonitorStep)

\* The job store with every request answered, accepted or rejected; the
\* worker discards revoked tasks and runs the cleanup tasks.
NextStore ==
    \/ create_simulation
    \/ start_simulation_request
    \/ cancel_simulation_request
    \/ update_simulation_request
    \/ delete_simulation
    \/ cleanup_simulation_task
    \/ task_revoked

SpecStore == InitDelete /\ [][NextStore]_vars

(***************************************************************************)
(* The service called directly: the methods of LAMMPSService as the tasks  *)
(* cleanup_simulation_task and get_simulation_status_task and any other    *)
(* caller invoke them, one call at a time on one job id, with the          *)
(* executable running between the calls.  call records the last call.      *)
(***************************************************************************)
\* Longest log of the executable, in words.
MaxLogLen == 2

\* run_simulation called with the arguments of the job.
svc_run_simulation ==
    /\ \E outcome \in AllLaunchOutcomes, p \in Pids :
         IF LaunchError(args) # "ok"
         THEN /\ call' = Returned("run_simulation", "raised")
              /\ UNCHANGED <<osVars, ever_spawned>>
         ELSE LET met == Met(args.potential_files, outcome) IN
              /\ run_simulation(met, p, met = "ok")
              /\ call' = [Returned("run_simulation",
                                   IF met = "ok" THEN "success" ELSE "failure")
                            EXCEPT !.staged =
                                StageFrom(args.potential_files, 1, {}).staged]
    /\ UNCHANGED <<apiVars, revoked, dispatchVars, taskVars, terminal_polled, cleanup_calls,
                   only_marker_failures>>

\* Variant of svc_get_simulation_status that answers a query that follows a
\* query with the status of the earlier one.
svc_get_simulation_status_cached ==
    /\ \E io \in ReadOutcomes :
         call' = [Returned("get_simulation_status",
                           IF ~_validate_simulation_id(args.simulation_id)
                           THEN "raised"
                           ELSE IF call.op = "get_simulation_status"
                           THEN call.ret
                           ELSE get_simulation_status(workspace, process_json, log,
                                                      proc, io))
                  EXCEPT !.io = io]
    /\ UNCHANGED <<apiVars, revoked, dispatchVars, taskVars, osVars, histVars>>

\* get_simulation_status: raises for an id that fails the grammar.
svc_get_simulation_status ==
    /\ \E io \in ReadOutcomes :
         call' = [Returned("get_simulation_status",
                           IF _validate_simulation_id(args.simulation_id)
                           THEN get_simulation_status(workspace, process_json, log,
                                                      proc, io)
                           ELSE "raised")
                  EXCEPT !.io = io]
    /\ UNCHANGED <<apiVars, revoked, dispatchVars, taskVars, osVars, histVars>>

\* validate_input_script called with a script within the size limit.
svc_validate_input_script ==
    /\ \E run \in ValidatorRuns :
         LET r == validate_input_script(subprocess_run(run)) IN
         call' = [Returned("validate_input_script", r.message)
                  EXCEPT !.run = run, !.valid = r.valid, !.detail = r.error]
    /\ UNCHANGED <<apiVars, revoked, dispatchVars, taskVars, osVars, histVars>>

\* cleanup_simulation: raises for an id that fails the grammar.
svc_cleanup_simulation ==
    /\ \E rmtree_ok \in BOOLEAN, response \in TermResponses :
         IF _validate_simulation_id(args.simulation_id)
         THEN LET sent == IF workspace
                          THEN terminate(process_json, proc, response)
                          ELSE terminate(0, proc, response) IN
              /\ cleanup_simulation(rmtree_ok)
              /\ call' = [Returned("cleanup_simulation", cleanup_result(rmtree_ok))
                            EXCEPT !.signals = sent.signals, !.probe = sent.probe]
         ELSE /\ call' = Returned("cleanup_simulation", "raised")
              /\ UNCHANGED osVars
    /\ UNCHANGED <<apiVars, revoked, dispatchVars, taskVars, histVars>>

\* The executable writes a word to its log: a marker or any other text, in
\* any order.
lammps_append ==
    \E p \in Pids, w \in LogWords :
        /\ proc[p] = "logging"
        /\ workspace
        /\ log.exists
        /\ Len(log.content) < MaxLogLen
        /\ log' = [log EXCEPT !.content = Append(@, w)]
        /\ UNCHANGED <<apiVars, revoked, dispatchVars, call, taskVars, workspace, process_json,
                       proc, histVars>>

\* The operating system gives a pid that is free to a process of another
\* program.
other_program_spawn ==
    \E p \in Pids :
        /\ proc[p] = "free"
        /\ proc' = [proc EXCEPT ![p] = "foreign"]
        /\ UNCHANGED <<apiVars, revoked, dispatchVars, call, taskVars, workspace, process_json, log,
                       histVars>>

\* Launches of jobs with auxiliary files, and cleanups.
InitLaunch ==
    InitFor([simulation_id : IdKinds, input_script : {"ok"},
             mpi_processes : MpiValues, potential_files : FileLists])

NextLaunch ==
    \/ svc_run_simulation
    \/ svc_cleanup_simulation
    \/ lammps_exit

SpecLaunch == InitLaunch /\ [][NextLaunch]_vars

\* Status queries of a job that is launched, logs and exits.
InitStatus ==
    InitFor([simulation_id : IdKinds, input_script : {"ok"},
             mpi_processes : {MinMpi}, potential_files : {<<>>}])

NextStatus ==
    \/ svc_run_simulation
    \/ svc_get_simulation_status
    \/ lammps_open_log
    \/ lammps_append
    \/ lammps_exit

SpecStatus == InitStatus /\ [][NextStatus]_vars

\* Cleanups and status queries of a job that is launched, writes its markers
\* and exits, with pids that are free going to other programs.
NextCleanup ==
    \/ svc_run_simulation
    \/ svc_get_simulation_status
    \/ svc_cleanup_simulation
    \/ lammps_open_log
    \/ lammps_write
    \/ lammps_exit
    \/ other_program_spawn

SpecCleanup == InitStatus /\ [][NextCleanup]_vars

\* Job ids as characters: a letter and a hyphen for the class
\* [a-zA-Z0-9\-_], the dot and the slash of path tricks, the newline.
MaxIdLen == 2
IdChars == {"a", "-", ".", "/", "\n"}
WordChars == {"a", "-"}
RECURSIVE IdsOfLen(_)
IdsOfLen(n) ==
    IF n = 0 THEN {<<>>}
    ELSE {Append(w, c) : w \in IdsOfLen(n - 1), c \in IdChars}
Ids == UNION {IdsOfLen(n) : n \in 0..MaxIdLen}

\* re.match(r'^[a-zA-Z0-9\-_]+$', simulation_id): one or more characters of
\* the class; $ matches at the end of the string and before a newline that
\* ends it.
re_match_id(id) ==
    LET word(w) == Len(w) >= 1 /\ \A i \in DOMAIN w : w[i] \in WordChars IN
    \/ word(id)
    \/ Len(id) >= 2 /\ id[Len(id)] = "\n" /\ word(SubSeq(id, 1, Len(id) - 1))

\* What data_dir / id is on disk: nothing, a directory, a symbolic link to a
\* place outside the data root, to the data root, to a directory inside it.
Entries == {"absent", "dir", "link_outside", "link_root", "link_inside"}

\* One component of a path, at depth levels below the data root (negative:
\* outside it).
Descend(comp, depth) ==
    IF depth < 0 THEN depth
    ELSE IF comp \in {<<>>, <<".">>} THEN depth
    ELSE IF comp = <<".", ".">> THEN depth - 1
    ELSE depth + 1
RECURSIVE Walk(_, _, _, _)
Walk(id, i, comp, depth) ==
    IF i > Len(id) THEN Descend(comp, depth)
    ELSE IF id[i] = "/" THEN Walk(id, i + 1, <<>>, Descend(comp, depth))
    ELSE Walk(id, i + 1, Append(comp, id[i]), depth)

\* (data_dir / id).resolve() relative to data_dir.resolve(): "inside" a strict
\* descendant, "root" the data root itself, "outside".  An id that starts
\* with a slash replaces the data root; a link is followed when the id is
\* the one component that names it.
resolve(id, entry) ==
    LET depth == IF Len(id) >= 1 /\ id[1] = "/" THEN 0 - 1 ELSE Walk(id, 1, <<>>, 0) IN
    IF depth = 1 /\ \A i \in DOMAIN id : id[i] # "/"
    THEN CASE entry = "link_outside" -> "outside"
           [] entry = "link_root"    -> "root"
           [] OTHER                  -> "inside"
    ELSE IF depth < 0 THEN "outside"
    ELSE IF depth = 0 THEN "root"
    ELSE "inside"

\* _sanitize_path(data_dir / id, data_dir): relative_to raises ValueError for
\* a path that is not the base or below it.
_sanitize_path(id, entry) ==
    IF resolve(id, entry) = "outside" THEN "PathEscape" ELSE resolve(id, entry)

\* The first lines of create_simulation_workspace, get_simulation_status,
\* get_simulation_logs, get_simulation_results and cleanup_simulation: the
\* workspace they go on with, or what they raise.
workspace_path(id, entry) ==
    IF ~re_match_id(id) THEN "InvalidIdentifier" ELSE _sanitize_path(id, entry)

\* The four methods called with any id, whatever data_dir / id is.
path_create_simulation_workspace ==
    /\ \E id \in Ids, entry \in Entries :
         call' = [Returned("create_simulation_workspace", workspace_path(id, entry))
                  EXCEPT !.id = id, !.entry = entry]
    /\ UNCHANGED <<apiVars, revoked, dispatchVars, taskVars, osVars, histVars>>

path_get_simulation_status ==
    /\ \E id \in Ids, entry \in Entries :
         call' = [Returned("get_simulation_status", workspace_path(id, entry))
                  EXCEPT !.id = id, !.entry = entry]
    /\ UNCHANGED <<apiVars, revoked, dispatchVars, taskVars, osVars, histVars>>

path_get_simulation_results ==
    /\ \E id \in Ids, entry \in Entries :
         call' = [Returned("get_simulation_results", workspace_path(id, entry))
                  EXCEPT !.id = id, !.entry = entry]
    /\ UNCHANGED <<apiVars, revoked, dispatchVars, taskVars, osVars, histVars>>

path_cleanup_simulation ==
    /\ \E id \in Ids, entry \in Entries :
         call' = [Returned("cleanup_simulation", workspace_path(id, entry))
                  EXCEPT !.id = id, !.entry = entry]
    /\ UNCHANGED <<apiVars, revoked, dispatchVars, taskVars, osVars, histVars>>

NextPaths ==
    \/ path_create_simulation_workspace
    \/ path_get_simulation_status
    \/ path_get_simulation_results
    \/ path_cleanup_simulation

SpecPaths == InitStatus /\ [][NextPaths]_vars

\* What the reads of get_simulation_logs meet: the file read, a file over
\* the 50 MB limit, stat() / open() / readlines() raising.
LogReadOutcomes == {"ok", "too_large", "oserror"}

\* LAMMPSService.get_simulation_logs for a valid id: the dict it returns,
\* with the keys it has in each case.
LAMMPSService_get_simulation_logs(ws, lg, io) ==
    IF ~ws
    THEN [success |-> FALSE, error |-> "Simulation workspace not found"]
    ELSE IF ~lg.exists
    THEN [success |-> TRUE, logs |-> <<>>, lines |-> 0, message |-> "Log file not found"]
    ELSE IF io = "too_large"
    THEN [success |-> FALSE, error |-> "Log file too large"]
    ELSE IF io = "oserror"
    THEN [success |-> FALSE, error |-> "Failed to read logs"]
    ELSE [success |-> TRUE, logs |-> lg.content, lines |-> Len(lg.content),
          file_size |-> Len(lg.content), tail_lines |-> 100]

\* GET /simulations/{id}/logs: the status code of the response.  400 for an
\* id that is no UUID, 404 for an id not in the store; logs['exists'] on a
\* dict without that key raises KeyError, which the handler of line 380 turns
\* into 500.
get_simulation_logs ==
    /\ \E io \in LogReadOutcomes :
         LET logs == LAMMPSService_get_simulation_logs(workspace, log, io) IN
         call' = [Returned("get_simulation_logs",
                           IF args.simulation_id # "valid" THEN "400"
                           ELSE IF simulations_db.status = "absent" THEN "404"
                           ELSE IF "exists" \notin DOMAIN logs THEN "500"
                           ELSE IF ~logs["exists"] THEN "404"
                           ELSE "200")
                  EXCEPT !.io = io]
    /\ UNCHANGED <<apiVars, revoked, dispatchVars, taskVars, osVars, histVars>>

\* Requests for the log of a job that is created, launched, writes its
\* markers and exits.
NextLogs ==
    \/ create_simulation
    \/ svc_run_simulation
    \/ lammps_open_log
    \/ lammps_write
    \/ lammps_exit
    \/ get_simulation_logs

SpecLogs == InitStatus /\ [][NextLogs]_vars

\* Validations and launches of a job, as the monitor calls them.
NextValidate ==
    \/ svc_validate_input_script
    \/ svc_run_simulation
    \/ lammps_exit

SpecValidate == InitStatus /\ [][NextValidate]_vars


(***************************************************************************)
(* Properties.                                                             *)
(***************************************************************************)
NoJobProcess == \A p \in Pids : proc[p] = "free"
TaskEnded == pc \in {"done", "revoked"}

\* C1: once the monitor task has finished all its attempts, the job record
\* of an accepted start request is not left in status running: it is
\* completed or failed, or cancelled by a cancel request.
C1_RecordLeavesRunning ==
    (result.returned /\ simulations_db.status # "absent")
        => simulations_db.status \in {"completed", "failed", "cancelled"}

\* C2: the task returns success only from an attempt one of whose polls
\* returned completed, before the ceiling; and a poll returns completed only
\* when the log holds a completion marker (and no error marker).
C2_SuccessOnlyAfterCompleted ==
    [][ /\ (result'.success /\ ~result.success)
            => (status = "completed" /\ elapsed_time < max_wait_time)
        /\ (status' = "completed" /\ status # "completed")
            => (log.exists /\ HasCompletion(log) /\ ~HasError(log))
      ]_vars

\* C2 witness: the task has returned success.
C2_Witness == result.returned /\ result.success /\ pc = "done"

\* C3: after an accepted cancel request (the record is cancelled) and once
\* the revoked task has ended, no process launched for the job is alive.
C3_CancelStopsProcess ==
    (simulations_db.status = "cancelled" /\ TaskEnded) => NoJobProcess

\* C4: a cancel request that meets a monitor in progress still ends with the
\* state cleanup leaves after a failure: once the record is cancelled and the
\* monitor has ended without a success result, no workspace and no live job
\* process remain.
C4_CancelRaceCleansUp ==
    (simulations_db.status = "cancelled" /\ TaskEnded /\ ~result.success)
        => (~workspace /\ NoJobProcess)


\* A step of the monitor that is one poll of the loop.
PollStep ==
    /\ pc = "poll"
    /\ pc' \in {"poll", "after_loop", "except"}
    /\ (pc' = "poll" => elapsed_time' # elapsed_time)

TerminalStatus == {"failed", "completed"}
EarlierStage == {"pending", "starting", "running"}

\* C5 as stated: once a poll of the job has returned failed or completed, no
\* later poll of the same job returns running or an earlier stage.
C5_NoRevertWithinJob ==
    [][(terminal_polled /\ PollStep) => status' \notin EarlierStage]_vars

\* C5 amended: within one attempt a poll that returned failed or completed is
\* the last poll of that attempt (the loop is left for the result collection
\* or the failure path), so no later poll of the attempt can revert it.
C5_TerminalPollEndsAttempt ==
    status \in TerminalStatus => pc \in {"after_loop", "except"}

\* C5 witness: a poll returned failed and the attempt has left the loop, with
\* a retry still to come.
C5_Witness == status = "failed" /\ pc = "except" /\ retries < max_retries

\* C6 as stated: the published progress never decreases.
C6_ProgressNeverDecreases == [][current' >= current]_vars

\* C6 amended: within one attempt the published progress never decreases (only
\* the first publication of an attempt, 0, may lie below the last value of the
\* attempt before), it stays within 0..100 once published, and 100 is
\* published only by a poll that returned completed.
C6_ProgressMonotonicPerAttempt ==
    [][ /\ (pc # "validate_inputs" => current' >= current)
        /\ (pc = "validate_inputs" /\ current' # current => current' = 0)
        /\ current' <= 100
        /\ (current' = 100 /\ current # 100) => (PollStep /\ status' = "completed")
      ]_vars

\* C6 witness: a retry attempt whose polls have advanced the progress again.
C6_Witness == retries > 0 /\ pc = "poll" /\ current > 20 /\ current < 100

\* C7: the retries are bounded by max_retries (at most max_retries + 1
\* attempts), every retry is scheduled with the one countdown, and the final
\* failure is returned when the retries are used up, with the message of the
\* exception of the last attempt.
C7_BoundedRetriesFixedBackoff ==
    /\ retries <= max_retries
    /\ countdown \in {0, retry_countdown}
    /\ (pc = "retry_wait" => (countdown = retry_countdown /\ retries >= 1))
    /\ (result.returned /\ ~result.success)
          => (retries = max_retries /\ error # "none" /\ result.error = error)

\* C7 witness: four attempts ran into the ceiling and the final failure
\* carries the timeout message.
C7_Witness ==
    /\ result.returned /\ ~result.success
    /\ retries = max_retries
    /\ result.error = "Simulation timeout"

InputValidationErrors ==
    {"Invalid simulation_id", "Invalid input_script", "Input script too large",
     "Invalid MPI processes count", "Invalid simulation ID",
     "MPI processes must be between 1 and 16"}

\* C8: an attempt that fails the input validation is the only attempt: no
\* retry is scheduled for it.
C8_NoRetryOnInvalidInput ==
    error \in InputValidationErrors => (retries = 0 /\ pc # "retry_wait")

\* C9: when the Script Validator reports the script invalid, no retry is
\* scheduled for that failure, and if it was the first attempt no executable
\* has been launched for the job.
C9_NoRetryOnInvalidScript ==
    error = "Script validation failed"
        => (pc # "retry_wait" /\ (retries = 0 => ~ever_spawned))

C11_ErrorJobFailsWithOneCleanup ==
    (result.returned /\ ~result.success /\ only_marker_failures)
        => (cleanup_calls = 1 /\ simulations_db.status \in {"failed", "cancelled"})

WorkerCountOutOfRange == args.mpi_processes < MinMpi \/ args.mpi_processes > MaxMpi

\* C12: a submission whose worker count is outside 1..16 is rejected with an
\* invalid-parameter error: the store keeps no record of it, the monitor
\* stops at its input validation (it reaches neither the Script Validator nor
\* the launch) and ends in failure with that error, and no workspace is
\* created and no executable spawned at any point.
C12_WorkerCountRejected ==
    WorkerCountOutOfRange =>
        /\ simulations_db.status = "absent"
        /\ ~workspace /\ ~ever_spawned
        /\ pc \notin {"validate_script", "launch", "poll", "after_loop"}
        /\ (pc \in {"except", "retry_wait", "done"}
              => error \in InputValidationErrors)
        /\ ((pc \in {"except", "retry_wait", "done"}
               /\ args.simulation_id # "empty" /\ args.input_script = "ok")
              => error = "Invalid MPI processes count")
        /\ (result.returned => ~result.success)

\* C12 witness: the monitor was handed 17 workers with otherwise good
\* arguments and has returned the failure.
C12_Witness ==
    /\ args.mpi_processes = 17 /\ args.simulation_id = "valid"
    /\ args.input_script = "ok"
    /\ result.returned /\ result.error = "Invalid MPI processes count"


\* A step that the cleanup of a well-formed id can take.
CleanupStep == _validate_simulation_id(args.simulation_id) /\ svc_cleanup_simulation

\* C13 as stated (SpecCleanup): a call of cleanup that follows a call of
\* cleanup returns success and changes nothing on disk or in the process
\* table.
C13_SecondCleanupIsNoOp ==
    [][ (call.op = "cleanup_simulation" /\ CleanupStep)
            => (call'.ret = "success" /\ UNCHANGED osVars) ]_vars

\* C13 amended (SpecCleanup): a call of cleanup that follows a call of cleanup
\* which returned success (the workspace was removed, or there was none)
\* returns success and changes nothing on disk or in the process table.
C13_CleanupAfterSuccessIsNoOp ==
    [][ (call.op = "cleanup_simulation" /\ call.ret = "success" /\ CleanupStep)
            => (call'.ret = "success" /\ UNCHANGED osVars) ]_vars

\* C13 witness: the second of two cleanups in succession of a job that had
\* been launched has returned success.
C13_Witness ==
    /\ call.op = "cleanup_simulation" /\ call.again /\ call.ret = "success"
    /\ ever_spawned /\ ~workspace

\* C14 (SpecCleanup): a cleanup (the only place the code terminates a job's
\* process) of a job whose described process has exited does not raise and
\* leaves the status inferred for the job as it was.
C14_TerminateLeavesStatus ==
    [][ (CleanupStep /\ workspace /\ process_json # 0 /\ proc[process_json] = "free")
            => /\ call'.ret # "raised"
               /\ get_simulation_status(workspace', process_json', log', proc', "ok")
                    = get_simulation_status(workspace, process_json, log, proc, "ok")
      ]_vars

\* The log holds the word error in some letter case.
ErrorInAnyCase(lg) == \E i \in DOMAIN lg.content : lg.content[i] \in {"ERROR", "error"}

\* C15 (SpecStatus): on every disk state whose log holds the error marker in
\* any letter case, a status query whose reads succeed returns failed, with
\* or without a completion marker before or after it, process alive or not.
C15_ErrorMarkerWins ==
    (workspace /\ log.exists /\ ErrorInAnyCase(log))
        => get_simulation_status(workspace, process_json, log, proc, "ok") = "failed"

\* C15 witness: a query has returned failed on a log that holds a completion
\* marker followed by the error marker in lower case, the process alive.
C15_Witness ==
    /\ call.op = "get_simulation_status" /\ call.ret = "failed"
    /\ log.content = <<"Loop time of", "error">>
    /\ process_json # 0 /\ proc[process_json] # "free"

\* C16 (SpecStatus): with a workspace and no log file, a status query whose
\* reads succeed returns starting when the process of the descriptor is alive
\* and pending otherwise (no descriptor, or a descriptor of a process that is
\* gone), never failed.
C16_NoLogStartingOrPending ==
    (workspace /\ ~log.exists)
        => get_simulation_status(workspace, process_json, log, proc, "ok")
             = IF process_json # 0 /\ proc[process_json] # "free"
               THEN "starting" ELSE "pending"

\* C16 witness: a query has returned pending for a workspace whose descriptor
\* names a process that is gone, no log written.
C16_Witness ==
    /\ call.op = "get_simulation_status" /\ call.ret = "pending"
    /\ workspace /\ ~log.exists
    /\ process_json # 0 /\ proc[process_json] = "free"

InferredStatus ==
    {"pending", "starting", "running", "completed", "failed", "not_found", "unknown"}

\* C17 (SpecStatus): every value a status query returns is one of pending,
\* starting, running, completed, failed, not_found, unknown.
C17_StatusInClosedSet ==
    (call.op = "get_simulation_status" /\ call.ret # "raised")
        => call.ret \in InferredStatus


\* C18 (main specification): the status of the job record becomes cancelled
\* only by a step of an accepted cancel request (from running or pending, with
\* the revoke of the record's task and nothing else changed), and no poll of
\* the monitor returns cancelled.
C18_CancelledOnlyByCancel ==
    /\ [](status # "cancelled")
    /\ [][ (simulations_db'.status = "cancelled" /\ simulations_db.status # "cancelled")
             => cancel_simulation ]_vars

\* C18 witness: a cancel request was accepted while the monitor was polling.
C18_Witness == simulations_db.status = "cancelled" /\ pc = "poll" /\ revoked

\* C19 (SpecLaunch): the descriptor comes to hold a process id only in a
\* launch that returns success and spawns, in that step, the process of that
\* id; a launch that raises or returns an error writes no process id.
C19_DescriptorOnlyAfterSpawn ==
    [][ /\ (process_json' # process_json /\ process_json' # 0)
             => /\ call'.op = "run_simulation" /\ call'.ret = "success"
                /\ proc[process_json'] = "free"
                /\ proc'[process_json'] = "spawned"
        /\ (call'.op = "run_simulation" /\ call'.ret # "success" /\ call' # call)
             => process_json' \in {process_json, 0}
      ]_vars

\* C19 witness: a launch spawned the executable, failed to write the
\* descriptor and returned an error; no descriptor is on disk.
C19_Witness ==
    /\ call.op = "run_simulation" /\ call.ret = "failure"
    /\ workspace /\ process_json = 0
    /\ \E p \in Pids : proc[p] = "spawned"

\* The shared identifier grammar [A-Za-z0-9_-]+ on a file name.
NameGrammar(n) == Len(n) > 0 /\ \A i \in DOMAIN n : n[i] \in {"a", "b"}

\* C20 (SpecLaunch): a launch whose list of auxiliary files holds names that
\* fail the identifier grammar is not aborted by the staging of the files, and
\* only files of the potentials root are copied.
C20_BadNameNeverAborts ==
    (call.op = "run_simulation" /\ call.ret # "raised"
       /\ \E i \in DOMAIN args.potential_files : ~NameGrammar(args.potential_files[i]))
        => /\ ~StageFrom(args.potential_files, 1, {}).aborted
           /\ call.staged \subseteq PotentialsDir

\* C28 (SpecStatus): on every disk state whose log holds a completion marker
\* (Total wall time: or Loop time of) and no error marker, a status query
\* whose reads succeed returns completed, process alive or not.
C28_CompletionMarkerCompletes ==
    (workspace /\ log.exists /\ ~ErrorInAnyCase(log)
       /\ \E i \in DOMAIN log.content : log.content[i] \in CompletionMarkers)
        => get_simulation_status(workspace, process_json, log, proc, "ok") = "completed"

\* C28 witness: a query has returned completed on a log that holds Loop time
\* of and no error marker, the process alive.
C28_Witness ==
    /\ call.op = "get_simulation_status" /\ call.ret = "completed" /\ call.io = "ok"
    /\ log.content = <<"Loop time of">>
    /\ process_json # 0 /\ proc[process_json] # "free"

\* C29 (SpecStatus): on every disk state whose log exists and holds neither
\* the error marker nor a completion marker, a status query whose reads
\* succeed returns running when the process of the descriptor is alive and
\* failed otherwise (no descriptor, or a descriptor of a process that is
\* gone).
C29_NoMarkerFailedOrRunning ==
    (workspace /\ log.exists /\ ~ErrorInAnyCase(log)
       /\ \A i \in DOMAIN log.content : log.content[i] \notin CompletionMarkers)
        => get_simulation_status(workspace, process_json, log, proc, "ok")
             = IF process_json # 0 /\ proc[process_json] # "free"
               THEN "running" ELSE "failed"

\* C29 witness: a query has returned failed on a log of ordinary output
\* whose process is gone.
C29_Witness ==
    /\ call.op = "get_simulation_status" /\ call.ret = "failed" /\ call.io = "ok"
    /\ log.exists /\ log.content = <<"Step">>
    /\ process_json # 0 /\ proc[process_json] = "free"

\* The contents a process descriptor can have that are not a descriptor, and
\* a descriptor that cannot be read.
CorruptDescriptor ==
    {"descriptor_oserror", "descriptor_invalid_json", "descriptor_not_object",
     "descriptor_no_pid", "descriptor_bad_pid"}

\* C30 (SpecStatus): a status query that finds the descriptor unreadable or
\* corrupt returns what a query returns when no process is alive, never
\* error.
C30_CorruptDescriptorNotAlive ==
    [][ (call' # call /\ call'.op = "get_simulation_status" /\ call'.ret # "raised"
           /\ call'.io \in CorruptDescriptor)
        => /\ call'.ret # "error"
           /\ call'.ret = get_simulation_status(workspace, 0, log, proc, "ok")
      ]_vars

\* A call of cleanup_simulation has just returned.
CleanupReturned == call.op = "cleanup_simulation" /\ call.ret # "raised"

\* C21 as stated (SpecCleanup): a cleanup sends no signal, SIGTERM alone, or
\* SIGTERM then SIGKILL, and it sends SIGKILL if and only if the probe after
\* the wait found the process alive.
C21_KillIffProbeAlive ==
    CleanupReturned
        => /\ call.signals \in {<<>>, <<"SIGTERM">>, <<"SIGTERM", "SIGKILL">>}
           /\ (call.probe = "alive") <=> (call.signals = <<"SIGTERM", "SIGKILL">>)

\* C21 amended (SpecCleanup): a cleanup sends no signal, SIGTERM alone, or
\* SIGTERM then SIGKILL; it sends SIGKILL only if the probe after the wait
\* found the process alive, and it probes only after SIGTERM.
C21_TermThenProbeThenKill ==
    CleanupReturned
        => /\ call.signals \in {<<>>, <<"SIGTERM">>, <<"SIGTERM", "SIGKILL">>}
           /\ (call.signals = <<"SIGTERM", "SIGKILL">>) => (call.probe = "alive")
           /\ (call.probe # "none") <=> (call.signals # <<>>)

\* C21 witness: a cleanup has sent SIGTERM, found the process alive after the
\* wait and sent SIGKILL.
C21_Witness ==
    /\ CleanupReturned
    /\ call.signals = <<"SIGTERM", "SIGKILL">> /\ call.probe = "alive"

\* C23 (SpecCleanup): a cleanup ends no process of another program, and a
\* status query whose descriptor names a pid that now belongs to another
\* program does not report the job's process as alive.
C23_PidNeverHitsOtherProcess ==
    [][ /\ CleanupStep
           => \A p \in Pids : proc[p] = "foreign" => proc'[p] = "foreign"
        /\ (call' # call /\ call'.op = "get_simulation_status" /\ call'.io = "ok"
             /\ process_json # 0 /\ proc[process_json] = "foreign")
           => call'.ret \notin {"running", "starting"}
      ]_vars

\* A call of validate_input_script has returned, and the run it made.
Validated == call.op = "validate_input_script" /\ call.run.started
InTime == call.run.duration <= validation_timeout

\* C26 (SpecValidate): a run of the validator that exits with code zero within
\* the timeout gives valid; one that exits with another code within the
\* timeout gives invalid with the captured stderr; one that exceeds the
\* timeout gives invalid with the message Validation timeout, which no run
\* that ended within the timeout gets and which is not the message of a
\* script that failed validation.
C26_ValidatorClassifies ==
    Validated
        => /\ (InTime /\ call.run.exit_code = 0)
                => (call.valid /\ call.ret = "Input script is valid")
           /\ (InTime /\ call.run.exit_code # 0)
                => (/\ ~call.valid
                    /\ call.ret = "Input script validation failed"
                    /\ call.detail = "stderr")
           /\ ~InTime
                => (/\ ~call.valid
                    /\ call.ret = "Validation timeout"
                    /\ call.ret # "Input script validation failed")
           /\ call.ret = "Validation timeout" => call.run.duration >= validation_timeout

\* C26 witness: a run that was still going after the timeout has been
\* reported invalid with the message Validation timeout.
C26_Witness ==
    /\ Validated /\ call.run.duration = validation_timeout + 1
    /\ ~call.valid /\ call.ret = "Validation timeout"

\* C27 (SpecLogs): a get-logs request for a job that is in the store and
\* whose workspace holds a log file that can be read is answered with 200.
C27_GetLogsSucceeds ==
    [][ (call' # call /\ call'.op = "get_simulation_logs" /\ call'.io = "ok"
           /\ simulations_db.status # "absent" /\ workspace /\ log.exists)
        => call'.ret = "200" ]_vars

\* C22 (Spec): the failure path of the monitor, whatever its cleanup did
\* (removed the workspace, failed to remove it, raised), keeps the error of
\* the attempt and ends in a retry or in the failure result that carries
\* that error.
C22_CleanupFailureSwallowed ==
    [][ pc = "except"
        => /\ pc' \in {"except", "retry_wait", "done", "revoked"}
           /\ pc' \in {"retry_wait", "done"}
                => /\ error' = error
                   /\ pc' = "retry_wait"
                        => (ShouldRetry(retries) /\ retries' = retries + 1
                            /\ ~result'.returned)
                   /\ pc' = "done"
                        => (~ShouldRetry(retries) /\ result' = FinalFailure(error))
      ]_vars

\* C22 witness: the last attempt of a job failed on a poll, its cleanup could
\* not remove the workspace, and the task returned the failure of the poll.
C22_Witness ==
    /\ pc = "done" /\ workspace /\ cleanup_calls = max_retries + 1
    /\ result = FinalFailure(error) /\ error = "Simulation failed"

\* The identifier grammar [A-Za-z0-9_-]+.
IdGrammar(id) == Len(id) >= 1 /\ \A i \in DOMAIN id : id[i] \in WordChars

\* C24 (SpecPaths): for an id that passes the grammar the workspace a method
\* goes on with is a strict descendant of the data root, or the method
\* raises; for an id that fails the grammar the method raises before it
\* resolves a path.
C24_WorkspaceInsideRoot ==
    call.op # "none"
        => IF IdGrammar(call.id)
           THEN call.ret \in {"inside", "PathEscape"}
           ELSE call.ret = "InvalidIdentifier"

\* C25 (SpecDelete): under every sequence of create, start, cancel, update,
\* delete, retries and revocations at most one monitor task of the job is
\* dispatched and not yet ended, and there is one exactly while the task is
\* queued, executing or waiting for a retry.
C25_OneMonitorInFlight ==
    /\ in_flight \in {0, 1}
    /\ (in_flight = 1) <=> (pc \in {"queued", "retry_wait"} \cup Executing)

\* C25 witness: the record was deleted while the monitor task, started once
\* and failed once, waits for its retry.
C25_Witness ==
    /\ simulations_db.status = "deleted"
    /\ pc = "retry_wait" /\ retries = 1 /\ in_flight = 1

\* C31 (SpecStatus): a status query that finds a log file larger than the
\* maximum size does not return a status derived from the content of the
\* log (failed, completed, running).
C31_OversizedLogNotRead ==
    [][ (call' # call /\ call'.op = "get_simulation_status"
           /\ call'.io = "log_too_large" /\ workspace /\ log.exists)
        => call'.ret \notin {"failed", "completed", "running"} ]_vars

\* C32 (SpecStatus): a status query changes neither the workspace, the
\* descriptor, the log, the process table nor the job record, and what it
\* returns is a function of the workspace, the liveness of the described
\* process and what its reads meet at the time of the call, whatever an
\* earlier query returned.
C32_InferIsPureRead ==
    [][ (call' # call /\ call'.op = "get_simulation_status" /\ call'.ret # "raised")
        => /\ UNCHANGED <<workspace, process_json, log, proc, simulations_db>>
           /\ call'.ret = get_simulation_status(workspace, process_json, log, proc,
                                                call'.io)
      ]_vars

\* C32 witness: a query that follows an earlier query has returned completed
\* on a log that holds a completion marker, the process gone.
C32_Witness ==
    /\ call.op = "get_simulation_status" /\ call.again /\ call.io = "ok"
    /\ call.ret = "completed"
    /\ log.content = <<"Step", "Total wall time:">>
    /\ process_json # 0 /\ proc[process_json] = "free"

\* C33 (Spec): within an attempt the monitor reaches the script validation
\* from the input validation, the launch from a script validation that
\* passed, the poll loop from a launch that returned success (workspace and
\* descriptor written, elapsed time 0); it returns success only after the
\* loop when the last poll returned completed; and every failure is followed
\* by the cleanup before the retry is scheduled or the failure returned.
C33_StepsInOrder ==
    [][ /\ (pc' = "validate_script" /\ pc # "validate_script")
             => pc = "validate_inputs"
        /\ (pc' = "launch" /\ pc # "launch") => pc = "validate_script"
        /\ (pc' = "poll" /\ pc # "poll")
             => (pc = "launch" /\ workspace' /\ process_json' # 0
                 /\ elapsed_time' = 0)
        /\ (result'.success /\ ~result.success)
             => (pc = "after_loop" /\ status = "completed")
        /\ (pc' = "except" /\ pc # "except") => pc \in Executing
        /\ (pc = "except" /\ pc' \notin {"except", "revoked"})
             => (/\ cleanup_calls' = cleanup_calls + 1
                 /\ pc' \in {"retry_wait", "done"})
        /\ ((pc' = "retry_wait" /\ pc # "retry_wait")
              \/ (result'.returned /\ ~result.returned /\ ~result'.success))
             => (pc = "except" /\ cleanup_calls' = cleanup_calls + 1)
      ]_vars

\* C33 witness: an attempt failed on a poll, was cleaned up and retried, and
\* the second attempt returned success.
C33_Witness ==
    /\ pc = "done" /\ result.success
    /\ retries = 1 /\ cleanup_calls = 1

\* C34 (SpecLaunch): when a cleanup returns success, no process that was
\* spawned for the job is alive.
C34_NoProcessAfterCleanup ==
    [][ (CleanupStep /\ call'.ret = "success")
        => \A p \in Pids : proc'[p] \in {"free", "foreign"} ]_vars

\* The processes alive that were spawned for the job.
JobProcesses == {p \in Pids : proc[p] \in {"spawned", "logging", "orphan"}}

\* C35 (SpecRetry): at most one process spawned for the job is alive.
C35_OneProcessAlive == Cardinality(JobProcesses) <= 1

\* The statuses get_simulation_status returns (lammps_service.py 242-348).
PollStatuses == {"completed", "failed", "running", "starting", "pending",
                 "not_found", "unknown", "error"}

StoreRequests == {"start_simulation", "cancel_simulation", "update_simulation"}

C38_WitnessUnknown ==
    /\ call.op \in StoreRequests /\ call.ret = "404"
    /\ simulations_db.status = "deleted"

\* C39: a record with status cancelled keeps that status and its task id
\* through every step of the store and of the monitor; the only step that
\* changes it is the delete, which removes the record and dispatches the
\* cleanup task; no task is dispatched for a cancelled record.
C39_CancelledAbsorbing ==
    [][ simulations_db.status = "cancelled" =>
          /\ \/ simulations_db' = simulations_db
             \/ /\ simulations_db'.status = "deleted"
                /\ cleanup_task' = "queued"
          /\ in_flight' <= in_flight
      ]_vars

\* C39 witness: the record is cancelled and stays so while its monitor,
\* which the revocation has not ended yet, has gone through a failure and
\* polls in a later attempt.
C39_Witness ==
    /\ simulations_db.status = "cancelled" /\ revoked
    /\ pc = "poll" /\ retries > 0 /\ elapsed_time > 0

\* C40 (SpecDelete): once the record is deleted, the cleanup task of the
\* delete has run and the monitor task of the job has ended, neither a
\* workspace nor a live process of the job remains.
C40_DeleteLeavesNothing ==
    (simulations_db.status = "deleted" /\ cleanup_task = "done" /\ TaskEnded)
        => (~workspace /\ NoJobProcess)

\* Lines 95-96: the passes the loop can make in one attempt, 3600 / 10.
MaxPolls == max_wait_time \div check_interval

\* The attempt has returned a success result or the final failure result.
TaskReturned == pc = "done" /\ result.returned

====
